---- MODULE Spec2Model ----
(***************************************************************************)
(* SeqContainer: an expression-templated wrapper of std::vector.           *)
(*                                                                         *)
(*   Operator_Templates.h   the operation catalogue (Add_Op .. RightShift) *)
(*   Expression_Template.h  ExprTemplate<LeftExpr, BinaryOp, RightExpr>    *)
(*   SeqContainer.h         the container (src/unnamed/part_000)           *)
(*                                                                         *)
(* Element type: the default VALUE = intmax_t.  Indices are 0-based in the *)
(* source and in every operator below; the sequences that hold the         *)
(* elements are 1-based, so element i lives at s[i + 1].                   *)
(***************************************************************************)
EXTENDS Integers, Sequences, FiniteSets, TLC

(***************************************************************************)
(* Bounds of the model.                                                    *)
(***************************************************************************)
\* Longest container an initial state holds.
MaxLen == 2
\* Largest index handed to operator[] by a caller.
MaxIdx == 3
\* Most operations one expression tree chains.
MaxOps == 3
\* Most consuming statements (reads, writes, materializations) of one run.
MaxSteps == 2
\* Word width of the modelled element type: values are two's complement
\* integers of this many bits; results outside the word are outside the model.
BitWidth == 6

MinVal == -(2 ^ (BitWidth - 1))
MaxVal == (2 ^ (BitWidth - 1)) - 1
InRange(v) == v >= MinVal /\ v <= MaxVal

(***************************************************************************)
(* Element arithmetic of the built-in integer type.                        *)
(*                                                                         *)
(* An element operation yields [st, v, u]: st = "ok" with the value v,     *)
(* st = "trap" when the operation is undefined and the build traps         *)
(* (integer division by zero on x86), st = "range" when the mathematical   *)
(* result leaves the modelled word (an input outside the model's bounds).  *)
(* Where the operation is undefined the outcome is chosen by ub:           *)
(* "trap", "zero" (the quotient AArch64 produces) or "lhs" (the left       *)
(* operand, the remainder AArch64 produces); u tells that this happened.   *)
(***************************************************************************)
UBOutcomes == {"trap", "zero", "lhs"}

Ok(v) == [st |-> "ok", v |-> v, u |-> FALSE]
Trap == [st |-> "trap", v |-> 0, u |-> TRUE]
OutOfRange == [st |-> "range", v |-> 0, u |-> FALSE]

Checked(v) == IF InRange(v) THEN Ok(v) ELSE OutOfRange

Undefined(ub, a) ==
    IF ub = "trap" THEN Trap
    ELSE IF ub = "zero" THEN [st |-> "ok", v |-> 0, u |-> TRUE]
    ELSE [st |-> "ok", v |-> a, u |-> TRUE]

Abs(x) == IF x < 0 THEN -x ELSE x

\* C++ integer division truncates toward zero.
TruncDiv(a, b) ==
    IF (a >= 0) = (b >= 0) THEN Abs(a) \div Abs(b) ELSE -(Abs(a) \div Abs(b))

TruncRem(a, b) == a - b * TruncDiv(a, b)

ToUnsigned(x) == x % (2 ^ BitWidth)
ToSigned(u) == IF u >= 2 ^ (BitWidth - 1) THEN u - 2 ^ BitWidth ELSE u

BitOf(kind, p, q) ==
    IF kind = "And" THEN (IF p = 1 /\ q = 1 THEN 1 ELSE 0)
    ELSE IF kind = "Or" THEN (IF p = 1 \/ q = 1 THEN 1 ELSE 0)
    ELSE (IF p # q THEN 1 ELSE 0)

RECURSIVE Bitwise(_, _, _, _)
Bitwise(kind, x, y, n) ==
    IF n = 0 THEN 0
    ELSE BitOf(kind, x % 2, y % 2) + 2 * Bitwise(kind, x \div 2, y \div 2, n - 1)

BitOp(kind, a, b) == ToSigned(Bitwise(kind, ToUnsigned(a), ToUnsigned(b), BitWidth))

\* The built-in binary operator named by op, on two element values.
Builtin(op, a, b, ub) ==
    CASE op = "Add" -> Checked(a + b)
      [] op = "Sub" -> Checked(a - b)
      [] op = "Mul" -> Checked(a * b)
      [] op = "Div" -> IF b = 0 THEN Undefined(ub, a) ELSE Checked(TruncDiv(a, b))
      [] op = "Mod" -> IF b = 0 THEN Undefined(ub, a) ELSE Checked(TruncRem(a, b))
      [] op = "And" -> Ok(BitOp("And", a, b))
      [] op = "Or" -> Ok(BitOp("Or", a, b))
      [] op = "Xor" -> Ok(BitOp("Xor", a, b))
      [] op = "LeftShift" ->
            IF b < 0 THEN Undefined(ub, a)
            ELSE IF b >= BitWidth THEN OutOfRange
            ELSE Checked(a * (2 ^ b))
      [] op = "RightShift" ->
            IF b < 0 THEN Undefined(ub, a)
            ELSE IF b >= BitWidth THEN OutOfRange
            ELSE Ok(a \div (2 ^ b))

(***************************************************************************)
(* Operator_Templates.h: the catalogue.  Each struct has four overloads of *)
(* apply, named here by the value categories of (a, b):                    *)
(*   "cc" (T const&, T const&)   "rc" (T&&, T const&)                      *)
(*   "cr" (T const&, T&&)        "rr" (T&&, T&&)                           *)
(***************************************************************************)
Ops == {"Add", "Sub", "Mul", "Div", "Mod", "And", "Or", "Xor", "LeftShift", "RightShift"}
Overloads == {"cc", "rc", "cr", "rr"}

Add_Op(ov, a, b, ub) ==
    IF ov = "cr" THEN Builtin("Add", b, a, ub) ELSE Builtin("Add", a, b, ub)

\* Sub_Op with its operands the wrong way round.
Sub_Op_Swapped(ov, a, b, ub) == Builtin("Sub", b, a, ub)

Sub_Op(ov, a, b, ub) == Builtin("Sub", a, b, ub)

Mul_Op(ov, a, b, ub) ==
    IF ov = "cr" THEN Builtin("Mul", b, a, ub) ELSE Builtin("Mul", a, b, ub)

\* Div_Op with the (T const&, T&&) overload written like Mul_Op's: b /= a.
Div_Op_Swapped(ov, a, b, ub) ==
    IF ov = "cr" THEN Builtin("Div", b, a, ub) ELSE Builtin("Div", a, b, ub)

Div_Op(ov, a, b, ub) == Builtin("Div", a, b, ub)

Mod_Op(ov, a, b, ub) ==
    IF ov = "cc"
    THEN (IF b # 0 THEN Builtin("Mod", a, b, ub) ELSE Ok(0))
    ELSE Builtin("Mod", a, b, ub)

\* And_Op returning its left operand.
And_Op_Left(ov, a, b, ub) == Ok(a)

And_Op(ov, a, b, ub) ==
    IF ov = "cr" THEN Builtin("And", b, a, ub) ELSE Builtin("And", a, b, ub)

Or_Op(ov, a, b, ub) ==
    IF ov = "cr" THEN Builtin("Or", b, a, ub) ELSE Builtin("Or", a, b, ub)

Xor_Op(ov, a, b, ub) ==
    IF ov = "cr" THEN Builtin("Xor", b, a, ub) ELSE Builtin("Xor", a, b, ub)

LeftShift_Op(ov, a, b, ub) ==
    IF ov = "cr" THEN Builtin("RightShift", a, b, ub) ELSE Builtin("LeftShift", a, b, ub)

RightShift_Op(ov, a, b, ub) == Builtin("RightShift", a, b, ub)

\* BinaryOp::apply(a, b) for the BinaryOp named op, overload ov.
Apply(op, ov, a, b, ub) ==
    CASE op = "Add" -> Add_Op(ov, a, b, ub)
      [] op = "Sub" -> Sub_Op(ov, a, b, ub)
      [] op = "Mul" -> Mul_Op(ov, a, b, ub)
      [] op = "Div" -> Div_Op(ov, a, b, ub)
      [] op = "Mod" -> Mod_Op(ov, a, b, ub)
      [] op = "And" -> And_Op(ov, a, b, ub)
      [] op = "Or" -> Or_Op(ov, a, b, ub)
      [] op = "Xor" -> Xor_Op(ov, a, b, ub)
      [] op = "LeftShift" -> LeftShift_Op(ov, a, b, ub)
      [] op = "RightShift" -> RightShift_Op(ov, a, b, ub)

(***************************************************************************)
(* SeqContainer: storage primitives.  A container's _sequence is a         *)
(* sequence of element values.                                             *)
(***************************************************************************)
\* def_value = VALUE{}: what a read past the end of a const container returns.
def_value == 0

\* max_val is called by every materializing operator and is defined in none
\* of the repository's files; it is taken to be the larger of its arguments.
max_val(a, b) == IF a >= b THEN a ELSE b

Fill(n, value) == [k \in 1..n |-> value]

\* resize(size, value) without the branch that clears the storage.
resize_value_NoClear(s, size, value) ==
    IF size >= Len(s) THEN s \o Fill(size - Len(s), value)
    ELSE IF size > 0 THEN SubSeq(s, 1, size)
    ELSE s

\* resize(size, value)
resize_value(s, size, value) ==
    IF size >= Len(s) THEN s \o Fill(size - Len(s), value)
    ELSE IF size > 0 THEN SubSeq(s, 1, size)
    ELSE <<>>

\* resize(size)
resize(s, size) == resize_value(s, size, 0)

\* operator[](index) const: [v] the value read; the container is untouched.
\* operator[] const clamping the index to the last element.
IndexConst_Clamped(s, index) ==
    IF index < Len(s) THEN s[index + 1] ELSE IF Len(s) > 0 THEN s[Len(s)] ELSE def_value

IndexConst(s, index) ==
    IF index < Len(s) THEN s[index + 1] ELSE def_value

\* operator[](index), mutable: the container after the access; the reference
\* returned designates slot index of it.
\* operator[] growing by one element too many: resize(index + 2).
IndexMut_OneMore(s, index) ==
    IF index >= Len(s) THEN resize(s, index + 2) ELSE s

IndexMut(s, index) ==
    IF index >= Len(s) THEN resize(s, index + 1) ELSE s

(***************************************************************************)
(* ExprTemplate: an expression tree.  A leaf is a reference to a named     *)
(* container, const (const SeqContainer&, the left operand `*this` of a    *)
(* const member operator, or a const-qualified right operand) or not       *)
(* (SeqContainer&, what decltype(std::forward<RightExpr>(re)) is for a     *)
(* named non-const right operand).  An inner node holds its operands by    *)
(* reference and the operation as its BinaryOp type.                       *)
(***************************************************************************)
Names == {"m", "n", "r"}
OperandNames == {"m", "n"}

NoNode == [kind |-> "none"]
Leaf(c, isConst) == [kind |-> "leaf", c |-> c, const |-> isConst]
ExprTemplate(op, l, r) == [kind |-> "node", op |-> op, l |-> l, r |-> r]

RECURSIVE NumOps(_)
NumOps(e) == IF e.kind = "node" THEN 1 + NumOps(e.l) + NumOps(e.r) ELSE 0

RECURSIVE Operands(_)
Operands(e) ==
    IF e.kind = "leaf" THEN {e.c}
    ELSE IF e.kind = "node" THEN Operands(e.l) \cup Operands(e.r)
    ELSE {}

RECURSIVE OpsOf(_)
OpsOf(e) == IF e.kind = "node" THEN {e.op} \cup OpsOf(e.l) \cup OpsOf(e.r) ELSE {}

\* ExprTemplate::size(), SeqContainer::size()
\* size() as the longer of the two operands.
RECURSIVE NodeSize_Longest(_, _)
NodeSize_Longest(S, e) ==
    IF e.kind = "leaf" THEN Len(S[e.c])
    ELSE IF NodeSize_Longest(S, e.l) >= NodeSize_Longest(S, e.r)
         THEN NodeSize_Longest(S, e.l) ELSE NodeSize_Longest(S, e.r)

RECURSIVE NodeSize(_, _)
NodeSize(S, e) ==
    IF e.kind = "leaf" THEN Len(S[e.c])
    ELSE IF NodeSize(S, e.l) # 0 THEN NodeSize(S, e.l) ELSE NodeSize(S, e.r)

\* The value category operand[index] has: an lvalue for a container
\* (operator[] returns a reference), a prvalue for a nested node.
Category(e) == IF e.kind = "leaf" THEN "c" ELSE "r"

\* The overload of BinaryOp::apply that apply(left[index], right[index]) selects.
Overload(l, r) ==
    IF Category(l) = "c"
    THEN (IF Category(r) = "c" THEN "cc" ELSE "cr")
    ELSE (IF Category(r) = "c" THEN "rc" ELSE "rr")

\* operand[index] for a container operand: S after the access and the value.
\* n counts the calls of BinaryOp::apply.
LeafRead(S, e, index) ==
    IF e.const
    THEN [st |-> "ok", v |-> IndexConst(S[e.c], index), S |-> S, n |-> 0, u |-> FALSE]
    ELSE LET s2 == IndexMut(S[e.c], index)
         IN [st |-> "ok", v |-> s2[index + 1], S |-> [S EXCEPT ![e.c] = s2], n |-> 0,
             u |-> FALSE]

\* ExprTemplate::operator[](index).  The two operands of apply(...) are
\* indeterminately sequenced: leftFirst is the order the build chose.
RECURSIVE NodeIndex(_, _, _, _, _)
NodeIndex(S, e, index, leftFirst, ub) ==
    IF e.kind = "leaf" THEN LeafRead(S, e, index)
    ELSE
      LET first == IF leftFirst THEN e.l ELSE e.r
          second == IF leftFirst THEN e.r ELSE e.l
          x == NodeIndex(S, first, index, leftFirst, ub)
      IN
      IF x.st # "ok" THEN x
      ELSE
        LET y == NodeIndex(x.S, second, index, leftFirst, ub)
        IN
        IF y.st # "ok" THEN [y EXCEPT !.n = x.n + y.n, !.u = x.u \/ y.u]
        ELSE
          LET a == IF leftFirst THEN x.v ELSE y.v
              b == IF leftFirst THEN y.v ELSE x.v
              res == Apply(e.op, Overload(e.l, e.r), a, b, ub)
          IN [st |-> res.st, v |-> res.v, S |-> y.S, n |-> x.n + y.n + 1,
              u |-> x.u \/ y.u \/ res.u]

(***************************************************************************)
(* Building a node: the ten expression-producing operators of SeqContainer *)
(* and of ExprTemplate all return an ExprTemplate built from this object   *)
(* and re; its constructor stores the two references.  The result has the  *)
(* containers as the call leaves them, the number of containers the call   *)
(* created and the number of element operations it applied.                *)
(***************************************************************************)
\* An operator that evaluates at once into a temporary container.
ExprOperator_Eager(S, op, l, r) ==
    [node |-> ExprTemplate(op, l, r),
     S |-> [S EXCEPT !["r"] = Fill(NodeSize(S, ExprTemplate(op, l, r)), def_value)],
     created |-> 1, n |-> NodeSize(S, ExprTemplate(op, l, r))]

ExprOperator(S, op, l, r) ==
    [node |-> ExprTemplate(op, l, r), S |-> S, created |-> 0, n |-> 0]

(***************************************************************************)
(* Materialization.  The loop shared by the converting constructor, by     *)
(* operator=(RightExpr&&) and by the compound assignments:                 *)
(*     for (i = 0; i < limit; ++i) _sequence[i] OP= re[i];                 *)
(* cop is "Assign" for a plain store and a catalogue name for OP=.  The    *)
(* right operand re[i] is evaluated before _sequence[i] is read.           *)
(***************************************************************************)
\* _sequence[i] = value OP _sequence[i]: the operands the wrong way round.
Update_Swapped(cop, old, value, ub) ==
    IF cop = "Assign" THEN Ok(value) ELSE Builtin(cop, value, old, ub)

\* _sequence[i] OP= value, or _sequence[i] = value when cop is "Assign".
Update(cop, old, value, ub) ==
    IF cop = "Assign" THEN Ok(value) ELSE Builtin(cop, old, value, ub)

UpdateCount(cop) == IF cop = "Assign" THEN 0 ELSE 1

Stopped(st, S, n, u) == [st |-> st, S |-> S, n |-> n, u |-> u]

RECURSIVE MaterializeLoop(_, _, _, _, _, _, _, _, _)
RECURSIVE LoopBody(_, _, _, _, _, _, _, _, _)
RECURSIVE LoopStore(_, _, _, _, _, _, _, _, _, _)

\* the store of iteration i going to the first slot whatever i is
LoopStore_First(dst, cop, e, i, limit, leftFirst, ub, acc, x, upd) ==
    IF upd.st # "ok"
    THEN Stopped(upd.st, x.S, acc.n + x.n + UpdateCount(cop), acc.u \/ x.u \/ upd.u)
    ELSE MaterializeLoop([x.S EXCEPT ![dst][1] = upd.v], dst, cop, e, i + 1, limit,
                         leftFirst, ub,
                         [n |-> acc.n + x.n + UpdateCount(cop), u |-> acc.u \/ x.u \/ upd.u])

\* the store of iteration i, upd being the value to store
LoopStore(dst, cop, e, i, limit, leftFirst, ub, acc, x, upd) ==
    IF upd.st # "ok"
    THEN Stopped(upd.st, x.S, acc.n + x.n + UpdateCount(cop), acc.u \/ x.u \/ upd.u)
    ELSE MaterializeLoop([x.S EXCEPT ![dst][i + 1] = upd.v], dst, cop, e, i + 1, limit,
                         leftFirst, ub,
                         [n |-> acc.n + x.n + UpdateCount(cop), u |-> acc.u \/ x.u \/ upd.u])

\* iteration i, x being what re[i] returned
LoopBody(dst, cop, e, i, limit, leftFirst, ub, acc, x) ==
    IF x.st # "ok"
    THEN Stopped(x.st, x.S, acc.n + x.n, acc.u \/ x.u)
    ELSE LoopStore(dst, cop, e, i, limit, leftFirst, ub, acc, x,
                   Update(cop, x.S[dst][i + 1], x.v, ub))

MaterializeLoop(S, dst, cop, e, i, limit, leftFirst, ub, acc) ==
    IF i >= limit
    THEN Stopped("ok", S, acc.n, acc.u)
    ELSE LoopBody(dst, cop, e, i, limit, leftFirst, ub, acc,
                  NodeIndex(S, e, i, leftFirst, ub))

NoneYet == [n |-> 0, u |-> FALSE]

\* What a materializing call did: out is the loop's result.
Materialized(out, created) ==
    [st |-> out.st, S |-> out.S, v |-> 0, created |-> created, n |-> out.n, u |-> out.u]

ConstructLoop(S0, dst, e, leftFirst, ub) ==
    MaterializeLoop(S0, dst, "Assign", e, 0, Len(S0[dst]), leftFirst, ub, NoneYet)

\* SeqContainer(ExprTemplate&& expr): _sequence(expr.size(), value_type{}),
\* limit = _sequence.size(), then one pass.  The new container is bound to
\* the name dst.
Construct(S, dst, e, leftFirst, ub) ==
    Materialized(ConstructLoop([S EXCEPT ![dst] = Fill(NodeSize(S, e), 0)],
                               dst, e, leftFirst, ub), 1)

\* if (_sequence.size() < limit) resize(limit + 1);
GrowTo(S, dst, limit) ==
    IF Len(S[dst]) < limit THEN [S EXCEPT ![dst] = resize(S[dst], limit + 1)] ELSE S

AssignLoop(S, dst, cop, e, limit, leftFirst, ub) ==
    MaterializeLoop(GrowTo(S, dst, limit), dst, cop, e, 0, limit, leftFirst, ub, NoneYet)

\* operator=(RightExpr&&) and operator OP=(RightExpr&&) / (const SeqContainer&):
\* limit = max_val(size(), re.size()); grow when shorter; one pass.
AssignFrom(S, dst, cop, e, leftFirst, ub) ==
    Materialized(AssignLoop(S, dst, cop, e, max_val(Len(S[dst]), NodeSize(S, e)),
                            leftFirst, ub), 0)

(***************************************************************************)
(* The state machine.                                                      *)
(*   seq    the _sequence of every named container                         *)
(*   node   the expression node of the statement being built, or NoNode    *)
(*   last   what the last call was: its name, arguments, the containers    *)
(*          before it (pre), the value it returned (ret), the containers   *)
(*          it created and the element operations it applied               *)
(*   steps  statements executed so far                                     *)
(***************************************************************************)
VARIABLES seq, node, last, steps

vars == <<seq, node, last, steps>>

\* ub is recorded as the outcome of the undefined operations the call
\* executed, "none" when it executed none.
Called(op, e, dst, cop, i, ret, created, applied, ub) ==
    [op |-> op, pre |-> seq, e |-> e, dst |-> dst, cop |-> cop, i |-> i,
     ret |-> ret, created |-> created, applied |-> applied, ub |-> ub]

\* The call trapped on an undefined element operation.
Crashed(e, dst, cop, i) == Called("crash", e, dst, cop, i, 0, 0, 0, "trap")

Running == last.op # "crash"

\* Values and containers of the initial states.
InitValsM == {2}
InitValsN == {3}

RECURSIVE SeqsUpTo(_, _)
SeqsUpTo(V, n) ==
    IF n = 0 THEN {<<>>}
    ELSE LET shorter == SeqsUpTo(V, n - 1)
         IN shorter \cup {Append(s, v) : s \in {t \in shorter : Len(t) = n - 1}, v \in V}

InitPairs == SeqsUpTo(InitValsM, MaxLen) \X SeqsUpTo(InitValsN, MaxLen)

\* The containers of the documented examples: a, b of the fusion example and
\* m, n of the compound-assignment example.
Examples ==
    { <<Fill(5, 2), Fill(5, 3)>>, << <<1, 2, 3>>, <<0, 1, 2, 3, 4>> >> }

Init ==
    /\ \E p \in InitPairs \cup Examples :
          seq = [c \in Names |-> IF c = "m" THEN p[1] ELSE IF c = "n" THEN p[2] ELSE <<>>]
    /\ node = NoNode
    /\ steps = 0
    /\ last = [op |-> "init", pre |-> seq, e |-> NoNode, dst |-> "-", cop |-> "-",
               i |-> 0, ret |-> 0, created |-> 0, applied |-> 0, ub |-> "none"]

(***************************************************************************)
(* Which expressions and statements a run draws.                           *)
(*   - a first operator application may be any of the ten, on any pair of  *)
(*     operands, the right one const or not;                               *)
(*   - a longer chain uses ChainOps on non-const named operands;           *)
(*   - OP= from a node draws OP from NodeCompoundOps, OP= from a container *)
(*     from all ten.                                                       *)
(***************************************************************************)
ChainOps == {"Mul", "Div"}
NodeCompoundOps == {"Add", "Mod"}
ShiftOps == {"LeftShift", "RightShift"}

Indices == 0..MaxIdx
WriteValue == 5

\* The nodes a run extends: ChainOps over non-const operands.
RECURSIVE NonConstRight(_)
NonConstRight(e) ==
    IF e.kind = "leaf" THEN TRUE
    ELSE /\ (e.r.kind = "leaf" => ~e.r.const)
         /\ NonConstRight(e.l)
         /\ NonConstRight(e.r)

Chainable(e) == OpsOf(e) \subseteq ChainOps /\ NonConstRight(e)

\* The end of a materializing statement destroys the temporaries: a nested
\* node holds references to temporary inner nodes and is gone; a node over
\* two named containers can have been kept in a variable and is read again.
\* A run reads a node it did not materialize once.
EndOfStatement(e) == IF NumOps(e) = 1 THEN e ELSE NoNode

\* The effect of a call that evaluated elements: res is what it did.
\* A result outside the modelled word is not a behaviour of the model.
Finish(res, op, e, dst, cop, i, ub) ==
    /\ res.st # "range"
    /\ seq' = res.S
    /\ last' = IF res.st = "trap" THEN Crashed(e, dst, cop, i)
               ELSE Called(op, e, dst, cop, i, res.v, res.created, res.n,
                           IF res.u THEN ub ELSE "none")
    /\ steps' = steps + 1

\* What node[index] did.
Read(x) == [st |-> x.st, S |-> x.S, v |-> x.v, created |-> 0, n |-> x.n, u |-> x.u]

(***************************************************************************)
(* Building nodes.                                                         *)
(***************************************************************************)
\* The effect of an expression-producing operator: b is what it did.
Built(b, op) ==
    /\ node' = b.node
    /\ seq' = b.S
    /\ last' = Called("build", b.node, "-", op, 0, 0, b.created, b.n, "none")
    /\ UNCHANGED steps

\* SeqContainer::operator OP(RightExpr&& re) const, re a named container.
BuildNode(op, l, r, rConst) ==
    /\ Running
    /\ node = NoNode
    /\ steps = 0
    /\ Built(ExprOperator(seq, op, Leaf(l, TRUE), Leaf(r, rConst)), op)

\* ExprTemplate::operator OP(RE&& re) const, re a named container.
ChainNode(op, r) ==
    /\ Running
    /\ node # NoNode
    /\ last.op = "build"
    /\ NumOps(node) < MaxOps
    /\ node.r.kind = "leaf"
    /\ Chainable(node)
    /\ Built(ExprOperator(seq, op, node, Leaf(r, FALSE)), op)

\* SeqContainer::operator OP(RightExpr&& re) const, re a node.  The shift
\* operators are excluded: their (T const&, T&&) overload assigns to its
\* const operand and does not compile for a built-in element type.
WrapNode(op, l) ==
    /\ Running
    /\ node # NoNode
    /\ last.op = "build"
    /\ NumOps(node) = 1
    /\ Chainable(node)
    /\ op \notin ShiftOps
    /\ Built(ExprOperator(seq, op, Leaf(l, TRUE), node), op)

(***************************************************************************)
(* Reading a node.                                                         *)
(***************************************************************************)
\* node[index]
IndexNode(index, leftFirst, ub) ==
    /\ Running
    /\ node # NoNode
    /\ steps < MaxSteps
    /\ Finish(Read(NodeIndex(seq, node, index, leftFirst, ub)),
              "index_node", node, "-", "-", index, ub)
    /\ node' = NoNode

\* node.size()
SizeNode ==
    /\ Running
    /\ node # NoNode
    /\ steps < MaxSteps
    /\ last' = Called("size_node", node, "-", "-", 0, NodeSize(seq, node), 0, 0, "none")
    /\ node' = NoNode
    /\ steps' = steps + 1
    /\ UNCHANGED seq

(***************************************************************************)
(* Materializing.                                                          *)
(***************************************************************************)
\* SeqContainer r(node);
ConstructFromExpr(leftFirst, ub) ==
    /\ Running
    /\ node # NoNode
    /\ steps = 0
    /\ Finish(Construct(seq, "r", node, leftFirst, ub),
              "construct", node, "r", "Assign", 0, ub)
    /\ node' = EndOfStatement(node)

\* dst = node;
AssignExpr(dst, leftFirst, ub) ==
    /\ Running
    /\ node # NoNode
    /\ steps = 0
    /\ Finish(AssignFrom(seq, dst, "Assign", node, leftFirst, ub),
              "assign", node, dst, "Assign", 0, ub)
    /\ node' = EndOfStatement(node)

\* dst OP= node;
CompoundExpr(dst, cop, leftFirst, ub) ==
    /\ Running
    /\ node # NoNode
    /\ steps = 0
    /\ Finish(AssignFrom(seq, dst, cop, node, leftFirst, ub),
              "compound", node, dst, cop, 0, ub)
    /\ node' = EndOfStatement(node)

\* dst OP= src; for a named container src: the overload taking
\* const SeqContainer& when src is const, the template otherwise.
CompoundContainer(dst, cop, src, srcConst, ub) ==
    /\ Running
    /\ node = NoNode
    /\ steps = 0
    /\ Finish(AssignFrom(seq, dst, cop, Leaf(src, srcConst), TRUE, ub),
              "compound", Leaf(src, srcConst), dst, cop, 0, ub)
    /\ UNCHANGED node

(***************************************************************************)
(* Indexing a container.                                                   *)
(***************************************************************************)
\* c[index] resolved to the mutable overload: the read grows c.
IndexRead_Mutable(c, index) ==
    /\ Running
    /\ node = NoNode
    /\ last.e.kind # "node"
    /\ steps < MaxSteps
    /\ seq' = [seq EXCEPT ![c] = IndexMut(seq[c], index)]
    /\ last' = Called("index_read", NoNode, c, "-", index, IndexMut(seq[c], index)[index + 1],
                      0, 0, "none")
    /\ steps' = steps + 1
    /\ UNCHANGED node

\* std::as_const(c)[index]
IndexRead(c, index) ==
    /\ Running
    /\ node = NoNode
    /\ last.e.kind # "node"
    /\ steps < MaxSteps
    /\ last' = Called("index_read", NoNode, c, "-", index, IndexConst(seq[c], index), 0, 0, "none")
    /\ steps' = steps + 1
    /\ UNCHANGED <<seq, node>>

\* c[index], mutable: returns a reference to slot index.
IndexAccess(c, index) ==
    /\ Running
    /\ node = NoNode
    /\ last.e.kind # "node"
    /\ steps < MaxSteps
    /\ seq' = [seq EXCEPT ![c] = IndexMut(seq[c], index)]
    /\ last' = Called("index_mut", NoNode, c, "-", index, 0, 0, 0, "none")
    /\ steps' = steps + 1
    /\ UNCHANGED node

\* c[index] = value: the store through the reference just returned.
WriteRef ==
    /\ Running
    /\ last.op = "index_mut"
    /\ seq' = [seq EXCEPT ![last.dst][last.i + 1] = WriteValue]
    /\ last' = [last EXCEPT !.op = "write", !.ret = WriteValue]
    /\ UNCHANGED <<node, steps>>

Next ==
    \/ \E op \in Ops, l \in OperandNames, r \in OperandNames, rConst \in BOOLEAN :
          BuildNode(op, l, r, rConst)
    \/ \E op \in ChainOps, r \in OperandNames : ChainNode(op, r)
    \/ \E op \in ChainOps, l \in OperandNames : WrapNode(op, l)
    \/ \E index \in Indices, leftFirst \in BOOLEAN, ub \in UBOutcomes :
          IndexNode(index, leftFirst, ub)
    \/ SizeNode
    \/ \E leftFirst \in BOOLEAN, ub \in UBOutcomes : ConstructFromExpr(leftFirst, ub)
    \/ \E dst \in Names, leftFirst \in BOOLEAN, ub \in UBOutcomes :
          AssignExpr(dst, leftFirst, ub)
    \/ \E dst \in OperandNames, cop \in NodeCompoundOps, leftFirst \in BOOLEAN,
          ub \in UBOutcomes : CompoundExpr(dst, cop, leftFirst, ub)
    \/ \E dst \in OperandNames, cop \in Ops, src \in OperandNames, srcConst \in BOOLEAN,
          ub \in UBOutcomes : CompoundContainer(dst, cop, src, srcConst, ub)
    \/ \E c \in Names, index \in Indices : IndexRead(c, index)
    \/ \E c \in Names, index \in Indices : IndexAccess(c, index)
    \/ WriteRef

Spec == Init /\ [][Next]_vars

(***************************************************************************)
(* The container's own operations and the catalogue called directly.       *)
(* A run of ContainerSpec makes one call on the initial containers, and    *)
(* where an operation has an inverse or a sequel, that second call.        *)
(***************************************************************************)
\* The arguments of a direct call of BinaryOp::apply.
Args(ov, a, b) == [kind |-> "args", ov |-> ov, a |-> a, b |-> b]

\* The effect of BinaryOp::apply(a, b): res is what it returned.
Applied(res, op, ov, a, b, ub) ==
    /\ res.st # "range"
    /\ last' = IF res.st = "trap" THEN Crashed(Args(ov, a, b), "-", op, 0)
               ELSE Called("call_apply", Args(ov, a, b), "-", op, 0, res.v, 0, 1,
                           IF res.u THEN ub ELSE "none")
    /\ steps' = steps + 1
    /\ UNCHANGED <<seq, node>>

\* BinaryOp::apply(m[index], n[index]) through the overload ov.  For the
\* (T const&, T&&) overload of the two shift structs the value is the one
\* its body computes; with a built-in T that body assigns to its const
\* operand and the compiler rejects the call.
CallApply(op, ov, index, ub) ==
    /\ Running
    /\ node = NoNode
    /\ steps = 0
    /\ Applied(Apply(op, ov, IndexConst(seq["m"], index), IndexConst(seq["n"], index), ub),
               op, ov, IndexConst(seq["m"], index), IndexConst(seq["n"], index), ub)

(***************************************************************************)
(* Rotation: cshift, shift and the four private methods behind them.       *)
(***************************************************************************)
\* Largest |index| handed to cshift and shift.
MaxShift == 4
Shifts == (0 - MaxShift)..MaxShift

\* std::ranges::rotate(_sequence, _sequence.begin() + middle): the element
\* at offset middle becomes the first one, the order is kept cyclically.
rotate(s, middle) == [k \in 1..Len(s) |-> s[((k - 1 + middle) % Len(s)) + 1]]

\* rotate_right with the body of rotate_left.
rotate_right_AsLeft(s, shift) ==
    IF Len(s) > 0 THEN rotate(s, Len(s) - (shift % Len(s))) ELSE s

\* shift %= size(); rotate(_sequence, _sequence.end() - shift)
rotate_left(s, shift) ==
    IF Len(s) > 0 THEN rotate(s, Len(s) - (shift % Len(s))) ELSE s

\* shift %= size(); rotate(_sequence, _sequence.begin() + shift)
rotate_right(s, shift) ==
    IF Len(s) > 0 THEN rotate(s, shift % Len(s)) ELSE s

\* The elements at [from, to) set to zero.
ZeroRange(s, from, to) ==
    [k \in 1..Len(s) |-> IF k - 1 >= from /\ k - 1 < to THEN 0 ELSE s[k]]

\* rotate_left_and_drop clearing the last shift slots instead of the first.
rotate_left_and_drop_Tail(s, shift) ==
    IF Len(s) > 0
    THEN ZeroRange(rotate_left(s, shift), Len(s) - (shift % Len(s)), Len(s))
    ELSE s

\* rotate_left(shift); then _sequence[i] = 0 for i in [0, shift % size())
rotate_left_and_drop(s, shift) ==
    IF Len(s) > 0
    THEN ZeroRange(rotate_left(s, shift), 0, shift % Len(s))
    ELSE s

\* rotate_right(shift); then _sequence[i] = 0 for i from size() - 1 down to
\* size() - shift % size()
rotate_right_and_drop(s, shift) ==
    IF Len(s) > 0
    THEN ZeroRange(rotate_right(s, shift), Len(s) - (shift % Len(s)), Len(s))
    ELSE s

cshift(s, index) ==
    IF index > 0 THEN rotate_left(s, index) ELSE rotate_right(s, Abs(index))

shift(s, index) ==
    IF index > 0 THEN rotate_left_and_drop(s, index)
    ELSE rotate_right_and_drop(s, Abs(index))

\* c.cshift(index)
CShift(c, index) ==
    /\ Running
    /\ node = NoNode
    /\ steps = 0
    /\ seq' = [seq EXCEPT ![c] = cshift(seq[c], index)]
    /\ last' = Called("cshift", NoNode, c, "-", index, 0, 0, 0, "none")
    /\ steps' = steps + 1
    /\ UNCHANGED node

\* c.cshift(-index), right after c.cshift(index); last keeps the containers
\* as they were before the pair.
CShiftBack ==
    /\ last.op = "cshift"
    /\ seq' = [seq EXCEPT ![last.dst] = cshift(seq[last.dst], 0 - last.i)]
    /\ last' = [last EXCEPT !.op = "cshift_back"]
    /\ UNCHANGED <<node, steps>>

\* c.shift(index)
Shift(c, index) ==
    /\ Running
    /\ node = NoNode
    /\ steps = 0
    /\ seq' = [seq EXCEPT ![c] = shift(seq[c], index)]
    /\ last' = Called("shift", NoNode, c, "-", index, 0, 0, 0, "none")
    /\ steps' = steps + 1
    /\ UNCHANGED node

(***************************************************************************)
(* apply: the caller hands in an element function, the container runs it   *)
(* over its elements in place.                                             *)
(***************************************************************************)
\* The element function threw.
Throw == [st |-> "throw", v |-> 0, u |-> FALSE]

\* Element functions a caller hands to apply(func).
UnaryFns == {"negate", "below_three"}

\* Element functions a caller hands to apply(b, func).
BinaryFns == {"plus", "right"}

\* func(x)
Call1(func, x) ==
    IF func = "negate" THEN Checked(0 - x)
    ELSE IF x >= 3 THEN Throw ELSE Checked(x + 1)

\* func(x, y)
Call2(func, x, y) ==
    IF func = "plus" THEN Checked(x + y) ELSE Ok(y)

Fn1(func) == [kind |-> "fn", f |-> func]
Fn2(func, b) == [kind |-> "fn", f |-> func, b |-> b]

\* How a run of apply ended: st, the elements s, the index i it stopped at.
ApplyEnd(st, s, i, u) == [st |-> st, s |-> s, i |-> i, u |-> u]

RECURSIVE ApplyLoop(_, _, _, _)

\* An element function that fails is skipped, the loop goes on.
ApplyStore_Swallow(s, func, i, limit, r) ==
    IF r.st # "ok" THEN ApplyLoop(s, func, i + 1, limit)
    ELSE ApplyLoop([s EXCEPT ![i + 1] = r.v], func, i + 1, limit)

\* _sequence[i] = r, r being what func(_sequence[i]) came to: an exception
\* leaves the loop and the call.
ApplyStore(s, func, i, limit, r) ==
    IF r.st # "ok" THEN ApplyEnd(r.st, s, i, FALSE)
    ELSE ApplyLoop([s EXCEPT ![i + 1] = r.v], func, i + 1, limit)

\* for (i = 0; i < limit; ++i) _sequence[i] = func(_sequence[i]);
ApplyLoop(s, func, i, limit) ==
    IF i >= limit THEN ApplyEnd("ok", s, i, FALSE)
    ELSE ApplyStore(s, func, i, limit, Call1(func, s[i + 1]))

\* apply(func): limit = _sequence.size()
apply(s, func) == ApplyLoop(s, func, 0, Len(s))

\* b._sequence[i]: the unchecked subscript of the storage; past its end the
\* read is undefined, and what it yields (if the call survives) is zero or
\* whatever lies there.
RawRead(b, i, ub, there) ==
    IF i < Len(b) THEN Ok(b[i + 1]) ELSE Undefined(ub, there)

RECURSIVE Apply2Loop(_, _, _, _, _, _, _)

\* _sequence[i] = r, r being what func(_sequence[i], b._sequence[i]) came to.
Apply2Store(s, b, func, i, limit, ub, u, r) ==
    IF r.st # "ok" THEN ApplyEnd(r.st, s, i, u)
    ELSE Apply2Loop([s EXCEPT ![i + 1] = r.v], b, func, i + 1, limit, ub, u)

\* func(_sequence[i], y), y being what b._sequence[i] came to.
Apply2Body(s, b, func, i, limit, ub, u, y) ==
    IF y.st # "ok" THEN ApplyEnd(y.st, s, i, u \/ y.u)
    ELSE Apply2Store(s, b, func, i, limit, ub, u \/ y.u, Call2(func, s[i + 1], y.v))

\* for (i = 0; i < limit; ++i) _sequence[i] = func(_sequence[i], b._sequence[i]);
Apply2Loop(s, b, func, i, limit, ub, u) ==
    IF i >= limit THEN ApplyEnd("ok", s, i, u)
    ELSE Apply2Body(s, b, func, i, limit, ub, u, RawRead(b, i, ub, s[i + 1]))

\* apply(b, func): limit = max_val(size, b size); if (size < limit)
\* resize(limit + 1); then the loop.
apply2(s, b, func, ub) ==
    Apply2Loop(IF Len(s) < max_val(Len(s), Len(b))
               THEN resize(s, max_val(Len(s), Len(b)) + 1) ELSE s,
               b, func, 0, max_val(Len(s), Len(b)), ub, FALSE)

\* The end of a call of apply: returned, left by the exception of the
\* element function, or trapped.
ApplyDone(res, op, e, c, ub) ==
    /\ res.st # "range"
    /\ seq' = [seq EXCEPT ![c] = res.s]
    /\ last' = IF res.st = "trap" THEN Crashed(e, c, "-", res.i)
               ELSE Called(IF res.st = "throw" THEN "throw" ELSE op, e, c, "-", res.i,
                           0, 0, 0, IF res.u THEN ub ELSE "none")
    /\ steps' = steps + 1
    /\ UNCHANGED node

\* c.apply(func)
ApplyUnary(c, func) ==
    /\ Running
    /\ node = NoNode
    /\ steps = 0
    /\ ApplyDone(apply(seq[c], func), "apply", Fn1(func), c, "none")

\* c.apply(b, func)
ApplyBinary(c, b, func, ub) ==
    /\ Running
    /\ node = NoNode
    /\ steps = 0
    /\ ApplyDone(apply2(seq[c], seq[b], func, ub), "apply2", Fn2(func, b), c, ub)

(***************************************************************************)
(* resize and insert.                                                      *)
(***************************************************************************)
Sizes == 0..MaxIdx
FillValues == {def_value, WriteValue}

Resized(n, value) == [kind |-> "resize", n |-> n, value |-> value]
ResizedTwice(e, n, value) ==
    [kind |-> "resize", n |-> e.n, value |-> e.value, n2 |-> n, value2 |-> value]

\* c.resize(n, value); c.resize(n) is c.resize(n, value_type{})
Resize(c, n, value) ==
    /\ Running
    /\ node = NoNode
    /\ steps = 0
    /\ seq' = [seq EXCEPT ![c] = resize_value(seq[c], n, value)]
    /\ last' = Called("resize", Resized(n, value), c, "-", 0, 0, 0, 0, "none")
    /\ steps' = steps + 1
    /\ UNCHANGED node

\* A second c.resize(n, value) right after the first; last keeps the
\* containers as they were before the two.
ResizeAgain(n, value) ==
    /\ last.op = "resize"
    /\ seq' = [seq EXCEPT ![last.dst] = resize_value(seq[last.dst], n, value)]
    /\ last' = [last EXCEPT !.op = "resize_again", !.e = ResizedTwice(last.e, n, value)]
    /\ UNCHANGED <<node, steps>>

\* for (i = 0; i < limit; ++i) if (static_cast<bool>(operator[](i))) return
\* true; return false;  the subscript is the const one.
RECURSIVE BoolLoop(_, _)
BoolLoop(s, i) ==
    IF i >= Len(s) THEN 0
    ELSE IF IndexConst(s, i) # 0 THEN 1
    ELSE BoolLoop(s, i + 1)

\* operator bool() looking at the first element only.
ToBool_FirstOnly(s) == IF IndexConst(s, 0) # 0 THEN 1 ELSE 0

\* operator bool(): true when some element is not zero.
ToBool(s) == BoolLoop(s, 0)

\* insert(at, sized_range auto&& range): if (at > size) resize(at); then
\* _sequence.insert(next(begin, at), range begin, range end).
insert_range(s, at, range) ==
    SubSeq(IF at > Len(s) THEN resize(s, at) ELSE s, 1, at)
        \o range
        \o SubSeq(IF at > Len(s) THEN resize(s, at) ELSE s, at + 1,
                  Len(IF at > Len(s) THEN resize(s, at) ELSE s))

\* insert(at, const auto& range): the argument is turned into one element,
\* initializer_list<value_type>{range}, which the other overload inserts.
insert_value(s, at, value) == insert_range(s, at, <<value>>)

\* c.insert(at, b), b a container other than c. The overload is chosen by
\* the argument: an rvalue or a non-const lvalue binds to auto&& (the range
\* overload); for a const lvalue both parameters are const SeqContainer&
\* and partial ordering takes const auto&, whose initializer list converts
\* the container to one element through operator bool().
Insert(c, at, b, bConst) ==
    /\ Running
    /\ node = NoNode
    /\ steps = 0
    /\ c # b
    /\ seq' = [seq EXCEPT ![c] = IF bConst THEN insert_value(seq[c], at, ToBool(seq[b]))
                                 ELSE insert_range(seq[c], at, seq[b])]
    /\ last' = Called("insert", Leaf(b, bConst), c, "-", at, 0, 0, 0, "none")
    /\ steps' = steps + 1
    /\ UNCHANGED node

\* c.insert(at, value), value an element
InsertValue(c, at, value) ==
    /\ Running
    /\ node = NoNode
    /\ steps = 0
    /\ seq' = [seq EXCEPT ![c] = insert_value(seq[c], at, value)]
    /\ last' = Called("insert_value", NoNode, c, "-", at, value, 0, 0, "none")
    /\ steps' = steps + 1
    /\ UNCHANGED node

(***************************************************************************)
(* push_back, pop_back, comparison, conversion to bool.                    *)
(***************************************************************************)
\* pop_back removing the first element.
pop_back_Front(s) == IF Len(s) > 0 THEN Tail(s) ELSE s

\* if (_sequence.size() > 0) _sequence.pop_back();
pop_back(s) == IF Len(s) > 0 THEN SubSeq(s, 1, Len(s) - 1) ELSE s

\* _sequence.push_back(value);
push_back(s, value) == Append(s, value)

\* c.push_back(value)
PushBack(c, value) ==
    /\ Running
    /\ node = NoNode
    /\ steps = 0
    /\ seq' = [seq EXCEPT ![c] = push_back(seq[c], value)]
    /\ last' = Called("push_back", NoNode, c, "-", 0, value, 0, 0, "none")
    /\ steps' = steps + 1
    /\ UNCHANGED node

\* c.pop_back()
PopBack(c) ==
    /\ Running
    /\ node = NoNode
    /\ steps = 0
    /\ seq' = [seq EXCEPT ![c] = pop_back(seq[c])]
    /\ last' = Called("pop_back", NoNode, c, "-", 0, 0, 0, 0, "none")
    /\ steps' = steps + 1
    /\ UNCHANGED node

\* c.pop_back() right after c.push_back(value); last keeps the containers
\* as they were before the pair.
PopAfterPush ==
    /\ last.op = "push_back"
    /\ seq' = [seq EXCEPT ![last.dst] = pop_back(seq[last.dst])]
    /\ last' = [last EXCEPT !.op = "push_pop"]
    /\ UNCHANGED <<node, steps>>

\* operator<=> comparing the elements in order, then the sizes.
RECURSIVE spaceship_Elements(_, _)
spaceship_Elements(a, b) ==
    IF a = <<>> THEN (IF b = <<>> THEN "equivalent" ELSE "less")
    ELSE IF b = <<>> THEN "greater"
    ELSE IF Head(a) > Head(b) THEN "greater"
    ELSE IF Head(a) < Head(b) THEN "less"
    ELSE spaceship_Elements(Tail(a), Tail(b))

\* operator<=>(b): std::partial_ordering
spaceship(a, b) ==
    IF Len(a) > Len(b) THEN "greater"
    ELSE IF Len(a) < Len(b) THEN "less"
    ELSE "equivalent"

\* operator==(b): operator<=>(b) == std::partial_ordering::equivalent
equals(a, b) == spaceship(a, b) = "equivalent"

\* x == y and x <=> y
Compare(x, y) ==
    /\ Running
    /\ node = NoNode
    /\ steps = 0
    /\ last' = Called("compare", Leaf(y, TRUE), x, "-", 0,
                      [eq |-> equals(seq[x], seq[y]), ord |-> spaceship(seq[x], seq[y])],
                      0, 0, "none")
    /\ steps' = steps + 1
    /\ UNCHANGED <<seq, node>>

\* static_cast<bool>(c), at the start or on what resize or insert left.
BoolConvert(c) ==
    /\ Running
    /\ node = NoNode
    /\ last.op \in {"init", "resize", "insert_value"}
    /\ last' = Called("bool_convert", NoNode, c, "-", 0, ToBool(seq[c]), 0, 0, "none")
    /\ steps' = steps + 1
    /\ UNCHANGED <<seq, node>>

(***************************************************************************)
(* Copies.                                                                 *)
(***************************************************************************)
\* The defaulted copy constructor and copy assignment: the storage of the
\* source is copied element by element into storage of its own.
copy(s) == [k \in 1..Len(s) |-> s[k]]

\* SeqContainer r = src;  the copy constructor takes const SeqContainer&
\* for a const and for a non-const source alike.
CopyConstruct(src) ==
    /\ Running
    /\ node = NoNode
    /\ steps = 0
    /\ seq' = [seq EXCEPT !["r"] = copy(seq[src])]
    /\ last' = Called("copy_construct", Leaf(src, TRUE), "r", "Assign", 0, 0, 1, 0, "none")
    /\ steps' = steps + 1
    /\ UNCHANGED node

\* What dst = src did for a const source: the defaulted copy assignment.
Copied(dst, src) ==
    [st |-> "ok", S |-> [seq EXCEPT ![dst] = copy(seq[src])], v |-> 0, created |-> 0,
     n |-> 0, u |-> FALSE]

\* dst = src; for a named container src.  A const source goes to the
\* defaulted operator=(const SeqContainer&).  For a non-const source the
\* template operator=(RightExpr&&) binds SeqContainer& without adding const
\* and is the better match: the materializing loop runs over src.
CopyAssign(dst, src, srcConst) ==
    /\ Running
    /\ node = NoNode
    /\ steps = 0
    /\ Finish(IF srcConst THEN Copied(dst, src)
              ELSE AssignFrom(seq, dst, "Assign", Leaf(src, FALSE), TRUE, "none"),
              "copy_assign", Leaf(src, srcConst), dst, "Assign", 0, "none")
    /\ UNCHANGED node

\* c[index] = WriteValue on one of the two containers of a copy, c being
\* the copy (last.dst) or its source (last.e.c); last keeps the containers
\* as the copy left them.
WriteAfterCopy(c, index) ==
    /\ last.op \in {"copy_construct", "copy_assign"}
    /\ last.dst # last.e.c
    /\ c \in {last.dst, last.e.c}
    /\ seq' = [seq EXCEPT ![c] = [IndexMut(seq[c], index) EXCEPT ![index + 1] = WriteValue]]
    /\ last' = Called("copy_write", Leaf(IF c = last.dst THEN last.e.c ELSE last.dst, TRUE),
                      c, "-", index, WriteValue, 0, 0, "none")
    /\ UNCHANGED <<node, steps>>

(***************************************************************************)
(* Two ways to the same container, side by side.  The first container is   *)
(* bound to r; the second is kept in last.ret.                             *)
(***************************************************************************)
\* The end of a pair of computations x, y, both of which bind r.
BothDone(x, y, op, e, cop, ub) ==
    /\ x.st # "range"
    /\ y.st # "range"
    /\ seq' = [y.S EXCEPT !["r"] = x.S["r"]]
    /\ last' = IF x.st = "trap" \/ y.st = "trap" THEN Crashed(e, "r", cop, 0)
               ELSE Called(op, e, "r", cop, 0, y.S["r"], 2, x.n + y.n,
                           IF x.u \/ y.u THEN ub ELSE "none")
    /\ steps' = steps + 1
    /\ UNCHANGED node

\* SeqContainer r(a OP b);  SeqContainer copy = a;  copy OP= b;
\* the compound assignment being the one that takes const SeqContainer&.
LazyEager(op, a, b, bConst, ub) ==
    /\ Running
    /\ node = NoNode
    /\ steps = 0
    /\ BothDone(Construct(seq, "r", ExprTemplate(op, Leaf(a, TRUE), Leaf(b, bConst)),
                          TRUE, ub),
                AssignFrom([seq EXCEPT !["r"] = copy(seq[a])], "r", op, Leaf(b, TRUE),
                           TRUE, ub),
                "lazy_eager", ExprTemplate(op, Leaf(a, TRUE), Leaf(b, bConst)), op, ub)

CommutativeOps == {"Add", "Mul", "And", "Or", "Xor"}

\* The second of two constructions, x being what the first one did.
ThenConstruct(x, e, leftFirst, ub) == Construct(x.S, "r", e, leftFirst, ub)

\* SeqContainer r(a OP b);  SeqContainer r2(b OP a);  one after the other.
Commute(op, a, b, rConst, ub) ==
    /\ Running
    /\ node = NoNode
    /\ steps = 0
    /\ BothDone(Construct(seq, "r", ExprTemplate(op, Leaf(a, TRUE), Leaf(b, rConst)),
                          TRUE, ub),
                ThenConstruct(Construct(seq, "r",
                                        ExprTemplate(op, Leaf(a, TRUE), Leaf(b, rConst)),
                                        TRUE, ub),
                              ExprTemplate(op, Leaf(b, TRUE), Leaf(a, rConst)), TRUE, ub),
                "commute", ExprTemplate(op, Leaf(a, TRUE), Leaf(b, rConst)), op, ub)

(***************************************************************************)
(* The unary operators +c, -c, ~c.                                         *)
(***************************************************************************)
UnaryOps == {"plus", "minus", "not"}

\* +x, -x, ~x of the element type
UnaryBuiltin(uop, x) ==
    IF uop = "plus" THEN Ok(x)
    ELSE IF uop = "minus" THEN Checked(0 - x)
    ELSE Ok(BitOp("Xor", x, 0 - 1))

\* for (i = 0; i < limit; ++i) s[i] = OP s[i];
UnaryMap(uop, s) == [k \in 1..Len(s) |-> UnaryBuiltin(uop, s[k]).v]

\* What a unary operator leaves: self is *this afterwards, ret the
\* container returned.  operator+ and operator- work on the copy
\* a = *this and return it; operator~ works on _sequence of *this and
\* returns a copy of *this.
UnaryOperator(uop, s) ==
    IF uop = "not" THEN [self |-> UnaryMap(uop, s), ret |-> copy(UnaryMap(uop, s))]
    ELSE [self |-> s, ret |-> UnaryMap(uop, copy(s))]

\* SeqContainer r = OP c;
UnaryOp(uop, c) ==
    /\ Running
    /\ node = NoNode
    /\ steps = 0
    /\ \A k \in 1..Len(seq[c]) : UnaryBuiltin(uop, seq[c][k]).st = "ok"
    /\ seq' = [seq EXCEPT ![c] = UnaryOperator(uop, seq[c]).self,
                          !["r"] = UnaryOperator(uop, seq[c]).ret]
    /\ last' = Called("unary", Leaf(c, FALSE), "r", uop, 0, 0, 1, Len(seq[c]), "none")
    /\ steps' = steps + 1
    /\ UNCHANGED node

ContainerNext ==
    \/ \E uop \in UnaryOps, c \in OperandNames : UnaryOp(uop, c)
    \/ \E op \in Ops, a \in OperandNames, b \in OperandNames, bConst \in BOOLEAN,
          ub \in UBOutcomes : LazyEager(op, a, b, bConst, ub)
    \/ \E op \in CommutativeOps, a \in OperandNames, b \in OperandNames, rConst \in BOOLEAN,
          ub \in UBOutcomes : Commute(op, a, b, rConst, ub)
    \/ \E src \in OperandNames : CopyConstruct(src)
    \/ \E dst \in OperandNames, src \in OperandNames, srcConst \in BOOLEAN :
          CopyAssign(dst, src, srcConst)
    \/ \E c \in Names, index \in Indices : WriteAfterCopy(c, index)
    \/ \E c \in OperandNames, value \in FillValues : PushBack(c, value)
    \/ \E c \in OperandNames : PopBack(c)
    \/ PopAfterPush
    \/ \E x \in OperandNames, y \in OperandNames : Compare(x, y)
    \/ \E c \in OperandNames : BoolConvert(c)
    \/ \E c \in OperandNames, n \in Sizes, value \in FillValues : Resize(c, n, value)
    \/ \E n \in Sizes, value \in FillValues : ResizeAgain(n, value)
    \/ \E c \in OperandNames, at \in Indices, b \in OperandNames, bConst \in BOOLEAN :
          Insert(c, at, b, bConst)
    \/ \E c \in OperandNames, at \in Indices, value \in FillValues : InsertValue(c, at, value)
    \/ \E c \in OperandNames, func \in UnaryFns : ApplyUnary(c, func)
    \/ \E c \in OperandNames, b \in OperandNames, func \in BinaryFns, ub \in UBOutcomes :
          ApplyBinary(c, b, func, ub)
    \/ \E c \in OperandNames, index \in Shifts : CShift(c, index)
    \/ CShiftBack
    \/ \E c \in OperandNames, index \in Shifts : Shift(c, index)
    \/ \E op \in Ops, ov \in Overloads, index \in Indices, ub \in UBOutcomes :
          CallApply(op, ov, index, ub)
    \/ \E dst \in OperandNames, cop \in Ops, src \in OperandNames, srcConst \in BOOLEAN,
          ub \in UBOutcomes : CompoundContainer(dst, cop, src, srcConst, ub)

ContainerSpec == Init /\ [][ContainerNext]_vars

(***************************************************************************)
(* The loops one iteration at a time.  While a loop runs, last.op names it *)
(* ("in_construct", "in_assign", "in_compound", "in_apply"), last.i is the *)
(* loop variable, last.ret the limit and last.applied the number of times  *)
(* the expression or the element function has been evaluated; last.pre are *)
(* the containers before the call.                                         *)
(***************************************************************************)
InLoop == {"in_construct", "in_assign", "in_compound", "in_apply"}

\* The name of the call whose loop is op.
Returned(op) ==
    IF op = "in_construct" THEN "construct"
    ELSE IF op = "in_assign" THEN "assign"
    ELSE IF op = "in_compound" THEN "compound"
    ELSE "apply"

\* (n * n * n) / m, the right-hand side of the README's m += (n * n * n) / m:
\* the left operand of the first operator is *this of a const member, the
\* named right operands are held as SeqContainer&.
ReadmeNode ==
    ExprTemplate("Div",
                 ExprTemplate("Mul",
                              ExprTemplate("Mul", Leaf("n", TRUE), Leaf("n", FALSE)),
                              Leaf("n", FALSE)),
                 Leaf("m", FALSE))

\* The nodes and containers a loop is run on.
LoopNodes ==
    { ExprOperator(seq, op, Leaf("m", TRUE), Leaf("n", rConst)).node :
         op \in {"Add", "Mul"}, rConst \in BOOLEAN } \cup {ReadmeNode}
LoopOperands == LoopNodes \cup {Leaf("n", FALSE), Leaf("n", TRUE)}

\* The call has set up its storage (S) and its limit; the loop starts.
LoopEnter(op, S, e, dst, cop, limit) ==
    /\ Running
    /\ node = NoNode
    /\ steps = 0
    /\ seq' = S
    /\ last' = Called(op, e, dst, cop, 0, limit, 0, 0, "none")
    /\ steps' = steps + 1
    /\ UNCHANGED node

\* SeqContainer r(e): _sequence(expr.size(), value_type{}); limit = size
EnterConstruct(e) ==
    LoopEnter("in_construct", [seq EXCEPT !["r"] = Fill(NodeSize(seq, e), 0)], e, "r",
              "Assign", NodeSize(seq, e))

\* dst = e: limit = max_val(size, re.size()); grow when shorter
EnterAssign(dst, e) ==
    LoopEnter("in_assign", GrowTo(seq, dst, max_val(Len(seq[dst]), NodeSize(seq, e))),
              e, dst, "Assign", max_val(Len(seq[dst]), NodeSize(seq, e)))

\* dst OP= e
EnterCompound(dst, cop, e) ==
    LoopEnter("in_compound", GrowTo(seq, dst, max_val(Len(seq[dst]), NodeSize(seq, e))),
              e, dst, cop, max_val(Len(seq[dst]), NodeSize(seq, e)))

\* c.apply(func): limit = size
EnterApply(c, func) ==
    LoopEnter("in_apply", seq, Fn1(func), c, "-", Len(seq[c]))

\* ++i stepping over an index.
NextIndex_Skip(i) == i + 2

\* ++i
NextIndex(i) == i + 1

\* The end of one iteration: res is what the body did.
Iterated(res, S, ub) ==
    /\ res.st # "range"
    /\ seq' = S
    /\ last' = IF res.st = "trap" THEN Crashed(last.e, last.dst, last.cop, last.i)
               ELSE IF res.st = "throw" THEN [last EXCEPT !.op = "throw"]
               ELSE [last EXCEPT !.i = NextIndex(@), !.applied = @ + 1,
                                 !.ub = IF res.u THEN ub ELSE @]
    /\ UNCHANGED <<node, steps>>

\* One pass through the body of the materializing loop.
IterateStore(res, ub) == Iterated(res, res.S, ub)

\* _sequence[i] OP= re[i]; ++i
LoopStep(leftFirst, ub) ==
    /\ last.op \in InLoop \ {"in_apply"}
    /\ last.i < last.ret
    /\ IterateStore(MaterializeLoop(seq, last.dst, last.cop, last.e, last.i, last.i + 1,
                                    leftFirst, ub, NoneYet), ub)

\* One pass through the body of the loop of apply.
IterateApply(res) == Iterated(res, [seq EXCEPT ![last.dst] = res.s], "none")

\* _sequence[i] = func(_sequence[i]); ++i
ApplyStep ==
    /\ last.op = "in_apply"
    /\ last.i < last.ret
    /\ IterateApply(ApplyLoop(seq[last.dst], last.e.f, last.i, last.i + 1))

\* i < limit fails: the call returns.
LoopExit ==
    /\ last.op \in InLoop
    /\ last.i >= last.ret
    /\ last' = [last EXCEPT !.op = Returned(@)]
    /\ UNCHANGED <<seq, node, steps>>

LoopNext ==
    \/ \E e \in LoopNodes : EnterConstruct(e)
    \/ \E dst \in OperandNames, e \in LoopNodes : EnterAssign(dst, e)
    \/ \E dst \in OperandNames, cop \in NodeCompoundOps, e \in LoopOperands :
          EnterCompound(dst, cop, e)
    \/ \E c \in OperandNames, func \in UnaryFns : EnterApply(c, func)
    \/ \E leftFirst \in BOOLEAN, ub \in UBOutcomes : LoopStep(leftFirst, ub)
    \/ ApplyStep
    \/ LoopExit

LoopSpec == Init /\ [][LoopNext]_vars

(***************************************************************************)
(* The documented meaning of an expression, in which the properties are    *)
(* stated: an element beyond a container's length reads as zero, and a     *)
(* node's element is its operators applied, in source order, to its        *)
(* operands' elements.  st is "ok" where that value is defined.            *)
(***************************************************************************)
ZeroFilled(s, i) == IF i < Len(s) THEN s[i + 1] ELSE 0

Combine(op, a, b) ==
    IF a.st # "ok" THEN a
    ELSE IF b.st # "ok" THEN b
    ELSE Builtin(op, a.v, b.v, "trap")

RECURSIVE NestedOps(_, _, _)
NestedOps(S, e, i) ==
    IF e.kind = "leaf" THEN Ok(ZeroFilled(S[e.c], i))
    ELSE Combine(e.op, NestedOps(S, e.l, i), NestedOps(S, e.r, i))

Max(a, b) == IF a >= b THEN a ELSE b

\* The lengths of the containers of an expression, left to right.
RECURSIVE LeafSizes(_, _)
LeafSizes(S, e) ==
    IF e.kind = "leaf" THEN <<Len(S[e.c])>>
    ELSE LeafSizes(S, e.l) \o LeafSizes(S, e.r)

RECURSIVE FirstNonZero(_)
FirstNonZero(s) ==
    IF s = <<>> THEN 0
    ELSE IF Head(s) # 0 THEN Head(s) ELSE FirstNonZero(Tail(s))

\* a * a * a / b with a bound to m and b to n
FusionNode ==
    ExprTemplate("Div",
        ExprTemplate("Mul",
            ExprTemplate("Mul", Leaf("m", TRUE), Leaf("m", FALSE)),
            Leaf("m", FALSE)),
        Leaf("n", FALSE))

FusionInput(S) == S["m"] = Fill(5, 2) /\ S["n"] = Fill(5, 3)

\* m += n with m = (1,2,3) and n = (0,1,2,3,4)
GrowInput(S) == S["m"] = <<1, 2, 3>> /\ S["n"] = <<0, 1, 2, 3, 4>>

\* m + n, n + m, m + m, n + n
SumNode(e) ==
    e.kind = "node" /\ e.op = "Add" /\ e.l.kind = "leaf" /\ e.r.kind = "leaf"

(***************************************************************************)
(* Properties.                                                             *)
(***************************************************************************)

\* C1: a container constructed from an expression node e has exactly
\* e.size() elements, and its element i is the node's nested operations
\* applied to the operands' elements at index i (wherever those operations
\* are defined), for every i below e.size(); constructed from a * a * a / b
\* with a all 2 and b all 3 of length 5 it holds 2 at every index 0..4.
C1_ConstructFromNode ==
    last.op = "construct" =>
        /\ Len(seq[last.dst]) = NodeSize(last.pre, last.e)
        /\ \A i \in 0..(NodeSize(last.pre, last.e) - 1) :
              NestedOps(last.pre, last.e, i).st = "ok"
                 => seq[last.dst][i + 1] = NestedOps(last.pre, last.e, i).v
        /\ (last.e = FusionNode /\ FusionInput(last.pre))
              => seq[last.dst] = Fill(5, 2)

C1_Witness ==
    /\ last.op = "construct"
    /\ last.e = FusionNode
    /\ FusionInput(last.pre)
    /\ seq["r"] = <<2, 2, 2, 2, 2>>

\* C2: reading a node built over named containers (node[i] for any i,
\* node.size(), or materializing it into a container that is not one of its
\* operands) leaves the size and the elements of every operand unchanged,
\* left and right alike, also when i is beyond an operand's length.
C2_ReadLeavesOperandsUnchanged ==
    (\/ last.op \in {"index_node", "size_node", "construct"}
     \/ (last.op = "assign" /\ last.dst \notin Operands(last.e)))
        => \A c \in Operands(last.e) : seq[c] = last.pre[c]

\* C3: the length a node reports is the first non-zero length among its
\* operands, left before right, recursively through nested nodes, and 0
\* when all are empty.
C3_NodeSizeFirstNonZero ==
    last.op = "size_node" => last.ret = FirstNonZero(LeafSizes(last.pre, last.e))

C3_Witness ==
    /\ last.op = "size_node"
    /\ NumOps(last.e) >= 2
    /\ Head(LeafSizes(last.pre, last.e)) = 0
    /\ last.ret > 0

\* C4: applying an operator to containers or nodes only builds the node: it
\* applies no element operation and creates or modifies no container; the
\* construction of a container from a chained expression creates exactly
\* one container, the result, and applies each operator of the chain once
\* per element in that one pass.
C4_OperatorsOnlyBuild ==
    /\ last.op = "build" =>
          /\ seq = last.pre
          /\ last.created = 0
          /\ last.applied = 0
          /\ node = last.e
    /\ last.op = "construct" =>
          /\ last.created = 1
          /\ last.applied = NumOps(last.e) * Len(seq[last.dst])

C4_Witness ==
    /\ last.op = "construct"
    /\ last.e = FusionNode
    /\ FusionInput(last.pre)
    /\ last.created = 1
    /\ last.applied = 15

\* C5: after a compound assignment m OP= other, other a container or a
\* node, m.size() is max(old m.size(), other.size()); for m of length 3
\* and n of length 5, m.size() is 5 after m += n.
C5_CompoundSizeIsMax ==
    last.op = "compound" =>
        Len(seq[last.dst]) = Max(Len(last.pre[last.dst]), NodeSize(last.pre, last.e))

\* C6: after a compound assignment m OP= other, for every index i below
\* max(old m.size(), other.size()) the new m[i] is old_m[i] OP other[i]
\* (wherever that is defined), both read as zero beyond their lengths;
\* (1,2,3) += (0,1,2,3,4) gives 1,3,5,3,4 at indices 0..4.
C6_CompoundElements ==
    last.op = "compound" =>
        /\ \A i \in 0..(Max(Len(last.pre[last.dst]), NodeSize(last.pre, last.e)) - 1) :
              Combine(last.cop, Ok(ZeroFilled(last.pre[last.dst], i)),
                      NestedOps(last.pre, last.e, i)).st = "ok"
                 => /\ i < Len(seq[last.dst])
                    /\ seq[last.dst][i + 1] =
                          Combine(last.cop, Ok(ZeroFilled(last.pre[last.dst], i)),
                                  NestedOps(last.pre, last.e, i)).v
        /\ (GrowInput(last.pre) /\ last.dst = "m" /\ last.cop = "Add"
               /\ last.e.kind = "leaf" /\ last.e.c = "n")
              => SubSeq(seq["m"], 1, 5) = <<1, 3, 5, 3, 4>>

C6_Witness ==
    /\ last.op = "compound"
    /\ GrowInput(last.pre)
    /\ last.dst = "m"
    /\ last.cop = "Add"
    /\ last.e.kind = "leaf"
    /\ last.e.c = "n"
    /\ SubSeq(seq["m"], 1, 5) = <<1, 3, 5, 3, 4>>

\* C7: after the plain assignment m = e of a node e into a container m that
\* is not an operand of e, m.size() is max(old m.size(), e.size()) and
\* m[i] is e[i] for every i below m.size(), e[i] being the node's
\* zero-filled value beyond its operands' lengths.
C7_AssignSizeAndElements ==
    (last.op = "assign" /\ last.dst \notin Operands(last.e)) =>
        /\ Len(seq[last.dst]) = Max(Len(last.pre[last.dst]), NodeSize(last.pre, last.e))
        /\ \A i \in 0..(Len(seq[last.dst]) - 1) :
              NestedOps(last.pre, last.e, i).st = "ok"
                 => seq[last.dst][i + 1] = NestedOps(last.pre, last.e, i).v

\* C8: in every reachable state a read-only indexed read c[i] returns the
\* stored element when i < c.size() and zero when i >= c.size(), and leaves
\* every container's size and elements unchanged.
C8_ConstReadIsTotal ==
    last.op = "index_read" =>
        /\ last.ret = ZeroFilled(last.pre[last.dst], last.i)
        /\ seq = last.pre

C8_Witness ==
    /\ last.op = "index_read"
    /\ steps = MaxSteps
    /\ Len(seq[last.dst]) > 0
    /\ last.i >= Len(seq[last.dst])
    /\ last.ret = 0

\* C9: a mutable indexed access c[i] with i >= c.size() grows c to exactly
\* i + 1 elements, the new ones zero and the old ones unchanged; with
\* i < c.size() it changes nothing; the caller's write then stores its
\* value in slot i only, so that writing c[i] = v into an empty container
\* yields size i + 1, zeros below i and v at i.
C9_MutableAccessGrows ==
    /\ last.op = "index_mut" =>
          /\ IF last.i >= Len(last.pre[last.dst])
             THEN /\ Len(seq[last.dst]) = last.i + 1
                  /\ \A k \in 1..Len(last.pre[last.dst]) :
                        seq[last.dst][k] = last.pre[last.dst][k]
                  /\ \A k \in (Len(last.pre[last.dst]) + 1)..(last.i + 1) :
                        seq[last.dst][k] = 0
             ELSE seq[last.dst] = last.pre[last.dst]
          /\ \A c \in Names \ {last.dst} : seq[c] = last.pre[c]
    /\ last.op = "write" =>
          /\ Len(seq[last.dst]) = Max(Len(last.pre[last.dst]), last.i + 1)
          /\ seq[last.dst][last.i + 1] = WriteValue
          /\ \A k \in 1..Len(seq[last.dst]) :
                k # last.i + 1 => seq[last.dst][k] = ZeroFilled(last.pre[last.dst], k - 1)

C9_Witness ==
    /\ last.op = "write"
    /\ last.pre[last.dst] = <<>>
    /\ last.i = MaxIdx
    /\ seq[last.dst] = [k \in 1..(MaxIdx + 1) |-> IF k = MaxIdx + 1 THEN WriteValue ELSE 0]

\* C10: for containers m, n and every index i >= max(m.size(), n.size()),
\* indexing the node (m + n)[i] does not fail and yields 0, before and
\* after the node and its operands have taken part in a materialization.
C10_SumBeyondLengthsIsZero ==
    (/\ last.op \in {"index_node", "crash"}
     /\ last.cop = "-"
     /\ SumNode(last.e)
     /\ last.i >= Max(Len(last.pre[last.e.l.c]), Len(last.pre[last.e.r.c])))
        => (last.op = "index_node" /\ last.ret = 0)

C10_Witness ==
    /\ last.op = "index_node"
    /\ steps = MaxSteps
    /\ SumNode(last.e)
    /\ last.e.l.c # last.e.r.c
    /\ last.i >= Max(Len(last.pre["m"]), Len(last.pre["n"]))
    /\ last.ret = 0

\* C11: for every catalogue operation and every pair of element values
\* (a, b), each of the four overloads of apply returns a OP b (wherever
\* that is defined); every LeftShift overload computes a << b and every
\* RightShift overload a >> b.
C11_OverloadsAgree ==
    (last.op = "call_apply" /\ Builtin(last.cop, last.e.a, last.e.b, "trap").st = "ok")
        => last.ret = Builtin(last.cop, last.e.a, last.e.b, "trap").v

\* C12: modulo with a zero divisor yields zero and never fails, through
\* each of the four overloads of Mod_Op::apply and in m %= n at every
\* index where n[i] is zero, also beyond n's length.
C12_ModuloByZeroIsZero ==
    /\ (/\ last.op \in {"call_apply", "crash"}
        /\ last.e.kind = "args"
        /\ last.cop = "Mod"
        /\ last.e.b = 0)
          => (last.op = "call_apply" /\ last.ret = 0)
    /\ (/\ last.op \in {"compound", "crash"}
        /\ last.e.kind = "leaf"
        /\ last.cop = "Mod")
          => /\ last.op = "compound"
             /\ \A i \in 0..(Max(Len(last.pre[last.dst]), Len(last.pre[last.e.c])) - 1) :
                   ZeroFilled(last.pre[last.e.c], i) = 0 => seq[last.dst][i + 1] = 0

\* C14: cshift(k) rotates toward index 0 for positive k and away from it
\* for negative k: for a container of length L > 0 and 0 < |k| < L, after
\* c.cshift(k) new[i] is old[(i + k) mod L] for every i.
C14_CShiftDirection ==
    (/\ last.op = "cshift"
     /\ Abs(last.i) > 0
     /\ Abs(last.i) < Len(last.pre[last.dst]))
        => /\ Len(seq[last.dst]) = Len(last.pre[last.dst])
           /\ \A i \in 0..(Len(seq[last.dst]) - 1) :
                 seq[last.dst][i + 1] =
                    last.pre[last.dst][((i + last.i) % Len(last.pre[last.dst])) + 1]

\* C15: circular rotation is invertible: for every container and every
\* integer k (positive, zero, negative, |k| >= L), c.cshift(k) followed by
\* c.cshift(-k) restores the original elements and size.
C15_CShiftInvertible ==
    last.op = "cshift_back" => seq = last.pre

C15_Witness ==
    /\ last.op = "cshift_back"
    /\ last.pre[last.dst] = <<1, 2, 3>>
    /\ last.i = 0 - MaxShift
    /\ seq[last.dst] = <<1, 2, 3>>

\* The slots cshift(k) fills with wrapped-around elements: cshift(k) moves
\* the element at j to (j + k) mod L, so slot i is wrapped when i - k lies
\* outside [0, L).
Wrapped(i, k, L) == i - k < 0 \/ i - k >= L

\* C16: shift(k) is rotate-and-drop and keeps the element count: for length
\* L and 0 < |k| < L the size is still L, exactly the |k| slots cshift(k)
\* fills with wrapped-around elements hold zero, and every other slot holds
\* what it holds after cshift(k).
C16_ShiftDropsWrapped ==
    (/\ last.op = "shift"
     /\ Abs(last.i) > 0
     /\ Abs(last.i) < Len(last.pre[last.dst]))
        => /\ Len(seq[last.dst]) = Len(last.pre[last.dst])
           /\ Cardinality({i \in 0..(Len(seq[last.dst]) - 1) :
                             Wrapped(i, last.i, Len(seq[last.dst]))}) = Abs(last.i)
           /\ \A i \in 0..(Len(seq[last.dst]) - 1) :
                 seq[last.dst][i + 1] =
                    IF Wrapped(i, last.i, Len(seq[last.dst])) THEN 0
                    ELSE cshift(last.pre[last.dst], last.i)[i + 1]
           /\ \A c \in Names \ {last.dst} : seq[c] = last.pre[c]

C16_Witness ==
    /\ last.op = "shift"
    /\ last.pre[last.dst] = <<1, 2, 3>>
    /\ last.i = 1
    /\ seq[last.dst] = <<0, 1, 2>>

\* C17: binary apply c.apply(b, fn) grows c to exactly
\* max(c.size(), b.size()) elements, zero-filled, and sets
\* c[i] = fn(old c[i], b[i]) for every i in that range, reading b[i] as zero
\* when i >= b.size(), without failing and without changing b.
C17_BinaryApply ==
    (/\ last.op \in {"apply2", "crash"}
     /\ last.e.kind = "fn")
        => /\ last.op = "apply2"
           /\ Len(seq[last.dst]) = Max(Len(last.pre[last.dst]), Len(last.pre[last.e.b]))
           /\ \A i \in 0..(Max(Len(last.pre[last.dst]), Len(last.pre[last.e.b])) - 1) :
                 /\ i < Len(seq[last.dst])
                 /\ seq[last.dst][i + 1] =
                       Call2(last.e.f, ZeroFilled(last.pre[last.dst], i),
                             ZeroFilled(last.pre[last.e.b], i)).v
           /\ \A c \in Names \ {last.dst} : seq[c] = last.pre[c]

\* The first index where the element function fails on s, Len(s) if none.
RECURSIVE FirstThrow(_, _, _)
FirstThrow(func, s, i) ==
    IF i >= Len(s) \/ Call1(func, s[i + 1]).st = "throw" THEN i
    ELSE FirstThrow(func, s, i + 1)

\* C18: when the element function handed to apply fails at index j, the
\* failure reaches the caller of apply, and nothing is rolled back: the
\* elements below j hold their transformed values, those at j and above
\* their prior values, and the size is unchanged.
C18_ApplyFailure ==
    (/\ last.op \in {"apply", "throw"}
     /\ last.e.kind = "fn"
     /\ FirstThrow(last.e.f, last.pre[last.dst], 0) < Len(last.pre[last.dst]))
        => /\ last.op = "throw"
           /\ last.i = FirstThrow(last.e.f, last.pre[last.dst], 0)
           /\ Len(seq[last.dst]) = Len(last.pre[last.dst])
           /\ \A i \in 0..(Len(seq[last.dst]) - 1) :
                 seq[last.dst][i + 1] =
                    IF i < last.i THEN Call1(last.e.f, last.pre[last.dst][i + 1]).v
                    ELSE last.pre[last.dst][i + 1]
           /\ \A c \in Names \ {last.dst} : seq[c] = last.pre[c]

C18_Witness ==
    /\ last.op = "throw"
    /\ last.pre[last.dst] = <<0, 1, 2, 3, 4>>
    /\ last.i = 3
    /\ seq[last.dst] = <<1, 2, 3, 3, 4>>

\* C19: resize(n, value) leaves the container with exactly n elements for
\* every n >= 0: on growth the elements [0, old size) are unchanged and each
\* new element equals value; on shrink the elements [0, n) are unchanged and
\* the rest are dropped, so that a later growth does not bring them back.
C19_ResizeExact ==
    /\ last.op = "resize"
          => /\ Len(seq[last.dst]) = last.e.n
             /\ \A i \in 0..(last.e.n - 1) :
                   seq[last.dst][i + 1] =
                      IF i < Len(last.pre[last.dst]) THEN last.pre[last.dst][i + 1]
                      ELSE last.e.value
             /\ \A c \in Names \ {last.dst} : seq[c] = last.pre[c]
    /\ (last.op = "resize_again" /\ last.e.n < Len(last.pre[last.dst]))
          => /\ Len(seq[last.dst]) = last.e.n2
             /\ \A i \in 0..(last.e.n2 - 1) :
                   seq[last.dst][i + 1] =
                      IF i < last.e.n THEN last.pre[last.dst][i + 1] ELSE last.e.value2

C19_Witness ==
    /\ last.op = "resize_again"
    /\ last.pre[last.dst] = <<1, 2, 3>>
    /\ last.e.n = 1
    /\ last.e.n2 = 3
    /\ seq[last.dst] = <<1, 0, 0>>

\* The elements of s with index in [from, to), zero beyond the end of s.
Slice(s, from, to) == [k \in 1..(to - from) |-> ZeroFilled(s, from + k - 1)]

\* C20: insert(at, range) places the elements of the range at
\* [at, at + len(range)): for at <= size the elements formerly at [at, size)
\* follow the range and [0, at) is unchanged; for at > size the container is
\* first grown to size at with zeros; the new size is
\* max(old size, at) + len(range), and the call does not fail.
C20_InsertRange ==
    (last.op \in {"insert", "crash"} /\ last.e.kind = "leaf" /\ last.cop = "-")
        => /\ last.op = "insert"
           /\ Len(seq[last.dst]) =
                 Max(Len(last.pre[last.dst]), last.i) + Len(last.pre[last.e.c])
           /\ seq[last.dst] =
                 Slice(last.pre[last.dst], 0, last.i)
                    \o last.pre[last.e.c]
                    \o Slice(last.pre[last.dst], last.i,
                             Max(Len(last.pre[last.dst]), last.i))
           /\ \A c \in Names \ {last.dst} : seq[c] = last.pre[c]

\* What one step of a running loop may do: trap on an undefined element
\* operation or leave by the exception of the element function, changing
\* nothing; or store into slot i alone of the target, whose size stays, and
\* move on to i + 1 with one more evaluation counted; or, at the limit,
\* return.
OneIteration ==
    \/ last'.op = "crash"
    \/ last'.op = "throw" /\ seq' = seq
    \/ /\ last.i < last.ret
       /\ last'.op = last.op
       /\ last'.i = last.i + 1
       /\ last'.applied = last.applied + 1
       /\ Len(seq'[last.dst]) = Len(seq[last.dst])
       /\ \A k \in (0..(Len(seq[last.dst]) - 1)) \ {last.i} :
             seq'[last.dst][k + 1] = seq[last.dst][k + 1]
       /\ last.op = "in_apply"
             => /\ seq'[last.dst][last.i + 1] =
                      Call1(last.e.f, last.pre[last.dst][last.i + 1]).v
                /\ Len(seq'[last.dst]) = Len(last.pre[last.dst])
                /\ \A c \in Names \ {last.dst} : seq'[c] = seq[c]
    \/ /\ last.i = last.ret
       /\ last.applied = last.ret
       /\ last'.op = Returned(last.op)
       /\ seq' = seq

\* C13: every materialization (construction from a node, plain and compound
\* assignment) and every apply call goes through the indices in ascending
\* order from 0, evaluates the expression or element function once per
\* index and writes index i before it evaluates index i + 1; unary apply
\* stores fn(old c[i]) at each i in [0, size) and leaves the size as it was.
C13_AscendingSinglePass ==
    [][/\ (last.op \notin InLoop /\ last'.op \in InLoop)
             => (last'.i = 0 /\ last'.applied = 0)
       /\ last.op \in InLoop => OneIteration]_vars

C13_Witness ==
    /\ last.op = "compound"
    /\ last.cop = "Add"
    /\ last.e = Leaf("n", TRUE)
    /\ last.pre[last.dst] = <<1, 2, 3>>
    /\ last.i = 5
    /\ last.applied = 5

\* C21: pop_back on an empty container is a no-op that leaves it empty and
\* raises no error; on a non-empty container it removes only the last
\* element; push_back(v) appends v as the new last element and leaves the
\* others unchanged, so push_back(v) followed by pop_back restores the
\* sequence.
C21_PushPop ==
    /\ last.op = "pop_back"
          => /\ Len(last.pre[last.dst]) = 0 => seq[last.dst] = <<>>
             /\ Len(last.pre[last.dst]) > 0
                   => /\ Len(seq[last.dst]) = Len(last.pre[last.dst]) - 1
                      /\ \A k \in 1..Len(seq[last.dst]) :
                            seq[last.dst][k] = last.pre[last.dst][k]
             /\ \A c \in Names \ {last.dst} : seq[c] = last.pre[c]
    /\ last.op = "push_back"
          => /\ Len(seq[last.dst]) = Len(last.pre[last.dst]) + 1
             /\ seq[last.dst][Len(seq[last.dst])] = last.ret
             /\ \A k \in 1..Len(last.pre[last.dst]) :
                   seq[last.dst][k] = last.pre[last.dst][k]
             /\ \A c \in Names \ {last.dst} : seq[c] = last.pre[c]
    /\ last.op = "push_pop" => seq = last.pre

C21_Witness ==
    /\ last.op = "pop_back"
    /\ last.pre[last.dst] = <<1, 2, 3>>
    /\ seq[last.dst] = <<1, 2>>

\* The order of two numbers, in the words of std::partial_ordering.
OrderOf(a, b) == IF a > b THEN "greater" ELSE IF a < b THEN "less" ELSE "equivalent"

\* C22: comparison is by length only: x == y holds exactly when
\* x.size() == y.size(), whatever the elements, and x <=> y is less, greater
\* or equivalent as the two sizes are ordered; two containers of equal
\* length with different elements compare as equivalent.
C22_CompareByLength ==
    last.op = "compare"
        => /\ last.ret.eq = (Len(last.pre[last.dst]) = Len(last.pre[last.e.c]))
           /\ last.ret.ord = OrderOf(Len(last.pre[last.dst]), Len(last.pre[last.e.c]))
           /\ seq = last.pre

C22_Witness ==
    /\ last.op = "compare"
    /\ last.pre[last.dst] = <<2, 2>>
    /\ last.pre[last.e.c] = <<3, 3>>
    /\ last.ret.eq
    /\ last.ret.ord = "equivalent"

\* C23: conversion to bool is true exactly when at least one element in
\* [0, size) is nonzero: false for an empty container and for an all-zero
\* one of any length, true when a single nonzero element exists at any
\* index; the conversion does not modify the container.
C23_BoolConversion ==
    last.op = "bool_convert"
        => /\ last.ret \in {0, 1}
           /\ (last.ret = 1) <=> (\E k \in 1..Len(last.pre[last.dst]) :
                                     last.pre[last.dst][k] # 0)
           /\ seq = last.pre

C23_Witness ==
    /\ last.op = "bool_convert"
    /\ last.pre[last.dst] = <<0, 0, WriteValue>>
    /\ last.ret = 1

\* C24: copying yields an independent deep copy: after copy construction or
\* copy assignment m = n from a named container n, m has the size and the
\* elements of n (also when m was the longer one), n is unchanged, and a
\* later mutation of one of the two leaves the other unchanged.
C24_CopyIsDeep ==
    /\ last.op \in {"copy_construct", "copy_assign"}
          => /\ seq[last.dst] = last.pre[last.e.c]
             /\ seq[last.e.c] = last.pre[last.e.c]
    /\ last.op = "copy_write" => seq[last.e.c] = last.pre[last.e.c]

\* C25: a compound assignment m OP= n whose right-hand side is a distinct
\* named non-const container n leaves the size and the elements of n
\* unchanged, also when m is longer than n and indices beyond the length of
\* n are read.
C25_CompoundKeepsRightOperand ==
    (/\ last.op \in {"compound", "crash"}
     /\ last.e.kind = "leaf"
     /\ last.cop \in Ops
     /\ ~last.e.const
     /\ last.e.c # last.dst)
        => seq[last.e.c] = last.pre[last.e.c]

\* C26: when the destination is itself an operand of the right-hand
\* expression (m += (n * n * n) / m) and m.size() is at least the length of
\* the expression, every new m[i] is old m[i] OP e[i] with e[i] evaluated
\* from the value m had at index i before the assignment: no write to an
\* index influences the value computed for another.  While the loop runs,
\* the slots below its index hold these values and the others their old
\* ones.
C26_AliasedDestination ==
    (/\ last.op \in {"in_compound", "compound"}
     /\ last.e.kind = "node"
     /\ last.dst \in Operands(last.e)
     /\ Len(last.pre[last.dst]) >= NodeSize(last.pre, last.e))
        => /\ Len(seq[last.dst]) = Len(last.pre[last.dst])
           /\ \A i \in 0..(Len(seq[last.dst]) - 1) :
                 IF i >= last.i THEN seq[last.dst][i + 1] = last.pre[last.dst][i + 1]
                 ELSE Combine(last.cop, Ok(last.pre[last.dst][i + 1]),
                              NestedOps(last.pre, last.e, i)).st = "ok"
                         => seq[last.dst][i + 1] =
                               Combine(last.cop, Ok(last.pre[last.dst][i + 1]),
                                       NestedOps(last.pre, last.e, i)).v

C26_Witness ==
    /\ last.op = "compound"
    /\ last.e = ReadmeNode
    /\ last.dst = "m"
    /\ last.cop = "Add"
    /\ last.pre["m"] = Fill(5, 2)
    /\ last.pre["n"] = Fill(5, 3)
    /\ seq["m"] = Fill(5, 15)

\* C27 as stated: the lazy and the eager path agree: for all containers a,
\* b, of equal or different lengths, and every operator OP, the container
\* constructed from the node a OP b has the size and the elements of a copy
\* of a after copy OP= b (where the element operation is defined).
C27_LazyEqualsEager ==
    (last.op = "lazy_eager" /\ last.ub = "none") => seq["r"] = last.ret

\* C27, amended: the two paths agree when a is at least as long as b; the
\* container constructed from a OP b then has the size and the elements of
\* the copy of a after copy OP= b, where the element operation is defined.
C27_LazyEqualsEagerWhenLeftLonger ==
    (/\ last.op = "lazy_eager"
     /\ last.ub = "none"
     /\ Len(last.pre[last.e.l.c]) >= Len(last.pre[last.e.r.c]))
        => /\ seq["r"] = last.ret
           /\ Len(seq["r"]) = Len(last.pre[last.e.l.c])

C27_Witness ==
    /\ last.op = "lazy_eager"
    /\ last.cop = "Sub"
    /\ last.pre[last.e.l.c] = <<3, 3>>
    /\ last.pre[last.e.r.c] = <<2>>
    /\ seq["r"] = <<1, 3>>
    /\ last.ret = <<1, 3>>

\* C28 as stated: for the commutative operations (+, *, &, |, ^) and all
\* containers a, b, containers of different lengths included, the container
\* constructed from a OP b and the one constructed from b OP a have the same
\* size and the same elements.
C28_Commutative ==
    last.op = "commute" => seq["r"] = last.ret

\* C28, amended: for the commutative operations the container constructed
\* from a OP b and the one constructed from b OP a have the same size and
\* the same elements when a and b have the same length or one of them is
\* empty.
C28_CommutativeOnEqualLengths ==
    (/\ last.op = "commute"
     /\ \/ Len(last.pre[last.e.l.c]) = Len(last.pre[last.e.r.c])
        \/ Len(last.pre[last.e.l.c]) = 0
        \/ Len(last.pre[last.e.r.c]) = 0)
        => seq["r"] = last.ret

C28_Witness ==
    /\ last.op = "commute"
    /\ last.cop = "And"
    /\ last.pre[last.e.l.c] = <<3, 3>>
    /\ last.pre[last.e.r.c] = <<2, 2>>
    /\ seq["r"] = <<2, 2>>
    /\ last.ret = <<2, 2>>

\* C29: for a container of length L > 0 and any k with |k| >= L, shift(k)
\* drops every original element: afterwards the size is L and all L
\* elements are zero.
C29_ShiftBeyondLength ==
    (/\ last.op = "shift"
     /\ Len(last.pre[last.dst]) > 0
     /\ Abs(last.i) >= Len(last.pre[last.dst]))
        => /\ Len(seq[last.dst]) = Len(last.pre[last.dst])
           /\ \A k \in 1..Len(seq[last.dst]) : seq[last.dst][k] = 0

\* C30: each unary operator (+c, -c, ~c) returns a new container of the
\* size of c whose element i is the operator applied to c[i], and leaves
\* the container c it is applied to unchanged.
C30_UnaryOperators ==
    last.op = "unary"
        => /\ Len(seq["r"]) = Len(last.pre[last.e.c])
           /\ \A k \in 1..Len(seq["r"]) :
                 seq["r"][k] = UnaryBuiltin(last.cop, last.pre[last.e.c][k]).v
           /\ seq[last.e.c] = last.pre[last.e.c]

====
